---- MODULE Spec2Model ----
(***************************************************************************)
(* Model of runlighthouse.js: the command-line trigger of Lighthouse CI.   *)
(* One behaviour is one process invocation: module start-up, getConfig(),  *)
(* the dispatch gate, run() and the callbacks of its promise chain.        *)
(***************************************************************************)
EXTENDS Integers, Sequences, FiniteSets, TLC

VARIABLES
  args,      \* process.argv.slice(2), by flag
  env,       \* process.env
  pc,        \* position of the process
  config,    \* const config (line 197); undefined until getConfig returns
  requests,  \* the calls of fetch() made so far, in order
  resp,      \* body of the HTTP response once fetch has resolved
  settled,   \* value or error the promise chain currently carries
  log,       \* console.log output, in order
  exitCode   \* exit code of the process; undefined while it runs

vars == <<args, env, pc, config, requests, resp, settled, log, exitCode>>

(***************************************************************************)
(* Bounds                                                                  *)
(***************************************************************************)
\* scores a response may carry are 0..MaxScore
MaxScore == 3

(***************************************************************************)
(* JavaScript values                                                       *)
(***************************************************************************)
Undef == [t |-> "undefined"]
Null == [t |-> "null"]
NaN == [t |-> "nan"]
Str(s) == [t |-> "string", s |-> s]
Num(n) == [t |-> "number", n |-> n]
Bool(b) == [t |-> "boolean", b |-> b]
Obj(f) == [t |-> "object", f |-> f]

\* ToBoolean
Truthy(v) ==
  CASE v.t = "undefined" -> FALSE
    [] v.t = "null" -> FALSE
    [] v.t = "nan" -> FALSE
    [] v.t = "string" -> v.s # ""
    [] v.t = "number" -> v.n # 0
    [] v.t = "boolean" -> v.b
    [] OTHER -> TRUE

\* a || b,  a && b,  !a
Or(a, b) == IF Truthy(a) THEN a ELSE b
And(a, b) == IF Truthy(a) THEN b ELSE a
Not(a) == Bool(~Truthy(a))

\* the decimal literals among the strings of the model, with their values
DecimalValue == ("0" :> 0) @@ ("2" :> 2) @@ ("7" :> 7) @@ ("8" :> 8)

\* Number(v)
Number(v) ==
  CASE v.t = "undefined" -> NaN
    [] v.t = "null" -> Num(0)
    [] v.t = "boolean" -> Num(IF v.b THEN 1 ELSE 0)
    [] v.t = "string" -> IF v.s = "" THEN Num(0)
                         ELSE IF v.s \in DOMAIN DecimalValue THEN Num(DecimalValue[v.s])
                         ELSE NaN
    [] OTHER -> v

\* parseInt(v, 10)
parseInt(v) ==
  IF v.t = "string" /\ v.s \in DOMAIN DecimalValue THEN Num(DecimalValue[v.s])
  ELSE IF v.t = "number" THEN v
  ELSE NaN

\* v[k]; reading a property of undefined or null throws a TypeError
Throws(v) == v.t \in {"undefined", "null"}
Prop(v, k) == IF v.t = "object" /\ k \in DOMAIN v.f THEN v.f[k] ELSE Undef

\* String.prototype.split('/') on the slugs of the model
SplitSlash ==
  ("o/r" :> <<"o", "r">>) @@
  ("https://github.com/o/r/pull/8" :> <<"https:", "", "github.com", "o", "r", "pull", "8">>) @@
  ("https://github.com/o/r" :> <<"https:", "", "github.com", "o", "r">>)
SplitAt(v, i) ==
  IF i + 1 <= Len(SplitSlash[v.s]) THEN Str(SplitSlash[v.s][i + 1]) ELSE Undef

\* JSON.stringify(v), as the JSON value its text denotes: NaN is written as
\* null and a property whose value is undefined is left out
RECURSIVE JSONstringify(_)
JSONstringify(v) ==
  CASE v.t = "nan" -> Null
    [] v.t = "object" ->
         Obj([k \in {j \in DOMAIN v.f : v.f[j].t # "undefined"} |-> JSONstringify(v.f[k])])
    [] OTHER -> v

\* Object.assign(target, source) on plain objects
ObjectAssign(target, source) == Obj(source.f @@ target.f)

\* one console.log call
Line(msg, a) == [msg |-> msg, args |-> a]

(***************************************************************************)
(* Module constants (lines 21-23)                                          *)
(***************************************************************************)
RUNNERS == [chrome |-> "chrome", wpt |-> "wpt"]
CI_HOST(e) == Or(e.CI_HOST, Str("https://lighthouse-ci.appspot.com"))
API_KEY(e) == Or(e.LIGHTHOUSE_API_KEY, e.API_KEY)

(***************************************************************************)
(* minimist(args, {boolean: [comment, help, pr],                           *)
(*                 default: {comment: true, pr: true}, alias: {help: h}})  *)
(* A flag is absent (Undef), bare (Bare: `--flag`) or `--flag=text`.       *)
(***************************************************************************)
Bare == [t |-> "bare"]
MinimistBool(raw, default) ==
  IF raw = Undef THEN Bool(default)
  ELSE IF raw = Bare THEN Bool(TRUE)
  ELSE Bool(raw.s # "false")
MinimistValue(raw) ==
  IF raw = Undef THEN Undef
  ELSE IF raw = Bare THEN Bool(TRUE)
  ELSE IF raw.s \in DOMAIN DecimalValue THEN Num(DecimalValue[raw.s])
  ELSE raw
minimist(a) ==
  [help |-> Bool(a.help),
   comment |-> Bool(~a.noComment),
   pr |-> MinimistBool(a.pr, TRUE),
   score |-> MinimistValue(a.score),
   runner |-> MinimistValue(a.runner),
   positional |-> IF a.url = Undef THEN <<>> ELSE <<MinimistValue(a.url)>>]

(***************************************************************************)
(* printUsageAndExit (lines 31-68): prints the usage text, process.exit(1) *)
(***************************************************************************)
printUsageAndExit(out) ==
  [exited |-> TRUE, code |-> 1, out |-> Append(out, Line("Usage:", <<>>)), config |-> Undef]

(***************************************************************************)
(* getPrInfo (lines 74-93)                                                 *)
(***************************************************************************)
getPrInfo(e) ==
  LET pr0 == [number |-> Null, sha |-> Null]
      pr1 == IF Truthy(e.TRAVIS)
             THEN [number |-> parseInt(e.TRAVIS_PULL_REQUEST), sha |-> e.TRAVIS_PULL_REQUEST_SHA]
             ELSE pr0
      pr2 == IF Truthy(e.CIRCLECI)
             THEN [number |-> parseInt(e.CIRCLE_PR_NUMBER), sha |-> e.CIRCLE_SHA1]
             ELSE pr1
  IN Obj(pr2)

(***************************************************************************)
(* getConfig (lines 99-155)                                                *)
(***************************************************************************)
\* lines 119-122 without the CircleCI signal
RunLighthouseTravisOnly(argv, e) ==
  Or(Not(argv.pr),
     And(argv.pr, Bool(e.TRAVIS_EVENT_TYPE = Str("pull_request"))))

\* lines 119-122
RunLighthouse(argv, e) ==
  Or(Not(argv.pr),
     And(argv.pr,
         Or(Bool(e.TRAVIS_EVENT_TYPE = Str("pull_request")), e.CIRCLE_PULL_REQUEST)))

\* line 113 never taken
UrlMissingNever(testUrl) == FALSE

\* line 113
UrlMissing(testUrl) == ~Truthy(testUrl)

\* line 126 testing for NaN only, so that a score of 0 passes
ScoreMissingNaNOnly(addComment, minPassScore) == ~Truthy(addComment) /\ minPassScore = NaN

\* line 126
ScoreMissing(addComment, minPassScore) == ~Truthy(addComment) /\ ~Truthy(minPassScore)

\* line 131
Runner(argv) == Or(argv.runner, Str(RUNNERS.chrome))

\* lines 132-133: possibleRunners.includes(runner)
possibleRunners == DOMAIN RUNNERS
Includes(runner) == runner.t = "string" /\ runner.s \in possibleRunners

\* lines 141-149
Repo(e) ==
  LET repoSlug == Or(e.TRAVIS_PULL_REQUEST_SLUG,
                     Or(e.CIRCLE_PULL_REQUEST, e.CIRCLE_REPOSITORY_URL))
  IN Obj([owner |-> IF Truthy(repoSlug) THEN SplitAt(repoSlug, 0) ELSE Null,
          name |-> IF Truthy(repoSlug) THEN SplitAt(repoSlug, 1) ELSE Null])

getConfig(a, e) ==
  LET argv == minimist(a)
      testUrl == IF Len(argv.positional) > 0 THEN argv.positional[1] ELSE Undef
      runLighthouse == RunLighthouse(argv, e)
      addComment == argv.comment
      minPassScore == Number(argv.score)
      runner == Runner(argv)
      repo == Repo(e)
      out4 == <<Line("Using runner:", <<runner>>),
                Line("ENV:", <<e.CIRCLE_PROJECT_USERNAME, e.CIRCLE_PROJECT_REPONAME>>),
                Line("Slug:", <<Prop(repo, "owner"), Prop(repo, "name")>>)>>
  IN IF Truthy(argv.help) THEN printUsageAndExit(<<>>)
     ELSE IF UrlMissing(testUrl)
       THEN printUsageAndExit(<<Line("Please provide a url to test.", <<>>)>>)
     ELSE IF ScoreMissing(addComment, minPassScore)
       THEN printUsageAndExit(<<Line("Please provide a --score when using --no-comment.", <<>>)>>)
     ELSE IF ~Includes(runner)
       THEN printUsageAndExit(<<Line("Unknown runner", <<runner>>)>>)
     ELSE [exited |-> FALSE, code |-> 0, out |-> out4,
           config |-> Obj([testUrl |-> testUrl,
                           runLighthouse |-> runLighthouse,
                           addComment |-> addComment,
                           minPassScore |-> minPassScore,
                           runner |-> runner,
                           pr |-> getPrInfo(e),
                           repo |-> repo])]

(***************************************************************************)
(* run (lines 160-181): the request handed to fetch                        *)
(***************************************************************************)
Endpoint(c, e) ==
  IF Prop(c, "runner") = Str(RUNNERS.wpt)
  THEN CI_HOST(e).s \o "/run_on_wpt"
  ELSE CI_HOST(e).s \o "/run_on_chrome"

\* lines 164-172 with the break of the wpt case missing
BodyFallThrough(c) == JSONstringify(ObjectAssign(Obj([format |-> Str("json")]), c))

Body(c) ==
  IF Prop(c, "runner") = Str(RUNNERS.wpt)
  THEN JSONstringify(c)
  ELSE JSONstringify(ObjectAssign(Obj([format |-> Str("json")]), c))

Request(c, e) ==
  [endpoint |-> Endpoint(c, e),
   method |-> "POST",
   body |-> Body(c),
   headers |-> ("Content-Type" :> Str("application/json")) @@ ("X-API-KEY" :> API_KEY(e))]

(***************************************************************************)
(* Inputs                                                                  *)
(***************************************************************************)
Unset(names) == [n \in names |-> Undef]

Args ==
  [help : BOOLEAN,
   noComment : BOOLEAN,
   pr : {Undef, Str("true"), Str("false")},
   score : {Undef, Bare, Str("0"), Str("abc"), Str("2")},
   runner : {Undef, Bare, Str("chrome"), Str("wpt"), Str("foo"), Str(""), Str("0")},
   url : {Undef, Str(""), Str("https://example.com")}]

GateEnvs ==
  [TRAVIS_EVENT_TYPE : {Undef, Str("pull_request"), Str("push")},
   CIRCLE_PULL_REQUEST : {Undef, Str(""), Str("https://github.com/o/r/pull/8")}]

ProviderNames ==
  {"TRAVIS", "TRAVIS_PULL_REQUEST", "TRAVIS_PULL_REQUEST_SHA",
   "CIRCLECI", "CIRCLE_PR_NUMBER", "CIRCLE_SHA1"}
\* no provider; a Travis pull-request build; a Travis push build (Travis sets
\* TRAVIS_PULL_REQUEST to "false" there); a CircleCI pull-request build
ProviderProfiles ==
  {Unset(ProviderNames),
   [Unset(ProviderNames) EXCEPT !.TRAVIS = Str("true"), !.TRAVIS_PULL_REQUEST = Str("7"),
                                !.TRAVIS_PULL_REQUEST_SHA = Str("a1b2")],
   [Unset(ProviderNames) EXCEPT !.TRAVIS = Str("true"), !.TRAVIS_PULL_REQUEST = Str("false")],
   [Unset(ProviderNames) EXCEPT !.CIRCLECI = Str("true"), !.CIRCLE_PR_NUMBER = Str("8"),
                                !.CIRCLE_SHA1 = Str("c3d4")]}

MiscNames ==
  {"CI_HOST", "LIGHTHOUSE_API_KEY", "API_KEY", "TRAVIS_PULL_REQUEST_SLUG",
   "CIRCLE_REPOSITORY_URL", "CIRCLE_PROJECT_USERNAME", "CIRCLE_PROJECT_REPONAME"}
MiscProfiles ==
  {Unset(MiscNames),
   [Unset(MiscNames) EXCEPT !.CI_HOST = Str("http://localhost:8080"),
                            !.LIGHTHOUSE_API_KEY = Str("key1"),
                            !.TRAVIS_PULL_REQUEST_SLUG = Str("o/r")],
   [Unset(MiscNames) EXCEPT !.API_KEY = Str("key2"),
                            !.CIRCLE_REPOSITORY_URL = Str("https://github.com/o/r"),
                            !.CIRCLE_PROJECT_USERNAME = Str("o"),
                            !.CIRCLE_PROJECT_REPONAME = Str("r")]}

\* response bodies: text that is not JSON, and JSON texts by the value they denote
NotJson == Str("<html>502 Bad Gateway</html>")
Bodies ==
  {NotJson, Null, Obj(<<>>), Obj([data |-> Obj(<<>>)]),
   Obj([data |-> Obj([target_url |-> Str("http://x")])])}
  \cup {Obj([score |-> Num(s)]) : s \in 0..MaxScore}

(***************************************************************************)
(* The process                                                             *)
(***************************************************************************)
InitWith(as, es) ==
  /\ args \in as
  /\ env \in es
  /\ pc = "start"
  /\ config = Undef
  /\ requests = <<>>
  /\ resp = Undef
  /\ settled = Undef
  /\ log = <<>>
  /\ exitCode = Undef

Init ==
  InitWith(Args, {g @@ p @@ m : g \in GateEnvs, p \in ProviderProfiles, m \in MiscProfiles})

\* lines 21-29: module start-up, the deprecation warning
Startup ==
  /\ pc = "start"
  /\ pc' = "main"
  /\ log' = IF Truthy(env.API_KEY)
            THEN Append(log, Line("Warning: The environment variable API_KEY is deprecated.", <<>>))
            ELSE log
  /\ UNCHANGED <<args, env, config, requests, resp, settled, exitCode>>

\* line 197: const config = getConfig()
GetConfig ==
  /\ pc = "main"
  /\ LET r == getConfig(args, env)
     IN /\ log' = log \o r.out
        /\ IF r.exited
           THEN /\ pc' = "exited"
                /\ exitCode' = Num(r.code)
                /\ config' = config
           ELSE /\ pc' = "gate"
                /\ exitCode' = exitCode
                /\ config' = r.config
  /\ UNCHANGED <<args, env, requests, resp, settled>>

\* line 199 with the test dropped
ShouldDispatchAlways(c) == TRUE

\* line 199
ShouldDispatch(c) == Truthy(Prop(c, "runLighthouse"))

\* lines 199-200, 160-181: run(config) up to the call of fetch
Run ==
  /\ pc = "gate"
  /\ ShouldDispatch(config)
  /\ requests' = Append(requests, Request(config, env))
  /\ pc' = "pending"
  /\ UNCHANGED <<args, env, config, resp, settled, log, exitCode>>

\* lines 201-205: the run is skipped; nothing is left to do
Skip ==
  /\ pc = "gate"
  /\ ~ShouldDispatch(config)
  /\ log' = Append(log, Line("Lighthouse is not run for non-PR commits by default.", <<>>))
  /\ pc' = "idle"
  /\ UNCHANGED <<args, env, config, requests, resp, settled, exitCode>>

\* fetch rejects: transport failure
FetchReject ==
  /\ pc = "pending"
  /\ settled' = Str("FetchError")
  /\ pc' = "catch"
  /\ UNCHANGED <<args, env, config, requests, resp, log, exitCode>>

\* fetch resolves with a response
FetchResolve ==
  /\ pc = "pending"
  /\ \E b \in Bodies : resp' = b
  /\ pc' = "json"
  /\ UNCHANGED <<args, env, config, requests, settled, log, exitCode>>

\* line 182: resp => resp.json()
RespJson ==
  /\ pc = "json"
  /\ IF resp = NotJson
     THEN settled' = Str("SyntaxError") /\ pc' = "catch"
     ELSE settled' = resp /\ pc' = "report"
  /\ UNCHANGED <<args, env, config, requests, resp, log, exitCode>>

\* lines 184-188 reading the score whatever the runner
ReportedScoreOnly(c, json) == Line("Lighthouse CI score:", <<Prop(json, "score")>>)

\* lines 184-188: the line logged for a response the handler can read
Reported(c, json) ==
  IF Prop(c, "runner") = Str(RUNNERS.wpt)
  THEN Line("Started Lighthouse run on WebPageTest:", <<Prop(Prop(json, "data"), "target_url")>>)
  ELSE Line("Lighthouse CI score:", <<Prop(json, "score")>>)

\* lines 184-188: what the handler dereferences
ReportThrows(c, json) ==
  IF Prop(c, "runner") = Str(RUNNERS.wpt)
  THEN Throws(json) \/ Throws(Prop(json, "data"))
  ELSE Throws(json)

\* lines 183-189: json => {...}
Report ==
  /\ pc = "report"
  /\ IF ReportThrows(config, settled)
     THEN settled' = Str("TypeError") /\ pc' = "catch" /\ log' = log
     ELSE /\ log' = Append(log, Reported(config, settled))
          /\ settled' = Undef
          /\ pc' = "idle"
  /\ UNCHANGED <<args, env, config, requests, resp, exitCode>>

\* the catch handler starting run over
AfterCatchRetry == "gate"

\* after the catch handler (line 192) the process is gone
AfterCatch == "exited"

\* lines 190-193: err => {...; process.exit(1)}
Catch ==
  /\ pc = "catch"
  /\ log' = Append(log, Line("Lighthouse CI failed", <<settled>>))
  /\ exitCode' = Num(1)
  /\ pc' = AfterCatch
  /\ UNCHANGED <<args, env, config, requests, resp, settled>>

\* nothing is pending any more: node ends the process with code 0
ProcessEnd ==
  /\ pc = "idle"
  /\ exitCode' = Num(0)
  /\ pc' = "exited"
  /\ UNCHANGED <<args, env, config, requests, resp, settled, log>>

Next ==
  \/ Startup
  \/ GetConfig
  \/ Run
  \/ Skip
  \/ FetchReject
  \/ FetchResolve
  \/ RespJson
  \/ Report
  \/ Catch
  \/ ProcessEnd

Spec == Init /\ [][Next]_vars


(***************************************************************************)
(* State predicates shared by the properties                               *)
(***************************************************************************)
Logged(m) == \E i \in 1..Len(log) : log[i].msg = m
Resolved == config # Undef
ShouldRun == Truthy(Prop(config, "runLighthouse"))
\* the process has ended the way printUsageAndExit ends it
UsageError ==
  /\ pc = "exited"
  /\ exitCode = Num(1)
  /\ Logged("Usage:")
  /\ config = Undef
  /\ requests = <<>>
\* getConfig has not returned a configuration, and if it has run it failed
NoConfigEver ==
  /\ config = Undef
  /\ requests = <<>>
  /\ pc \in {"start", "main", "exited"}
  /\ pc = "exited" => UsageError
IsWpt == Prop(config, "runner") = Str("wpt")
IsChrome == Prop(config, "runner") = Str("chrome")
\* the response carries the field that the runner's path reads
GoodResponse ==
  IF IsWpt
  THEN Prop(Prop(resp, "data"), "target_url") # Undef
  ELSE Prop(resp, "score") # Undef

(***************************************************************************)
(* C1: a network call happens only after getConfig has returned a          *)
(* configuration whose runLighthouse is truthy; with a falsy runLighthouse *)
(* no call is ever made, the skip message is logged and the process ends   *)
(* with exit code 0.                                                       *)
(***************************************************************************)
C1_DispatchGated ==
  /\ requests # <<>> => Resolved /\ ShouldRun
  /\ Resolved /\ ~ShouldRun =>
       /\ requests = <<>>
       /\ pc \in {"gate", "idle", "exited"}
       /\ pc # "gate" => Logged("Lighthouse is not run for non-PR commits by default.")
       /\ pc = "exited" => exitCode = Num(0)
C1_Witness ==
  /\ Resolved /\ ~ShouldRun
  /\ pc = "exited" /\ exitCode = Num(0)
  /\ requests = <<>>
  /\ Logged("Lighthouse is not run for non-PR commits by default.")

(***************************************************************************)
(* C2: at most one request is ever issued, whatever its outcome; after a   *)
(* failure the process exits with code 1 and nothing more is sent.         *)
(***************************************************************************)
C2_AtMostOnePost ==
  /\ Len(requests) <= 1
  /\ pc = "catch" => Len(requests) = 1
  /\ Logged("Lighthouse CI failed") =>
       pc = "exited" /\ exitCode = Num(1) /\ Len(requests) = 1
C2_Witness ==
  /\ Logged("Lighthouse CI failed")
  /\ log[Len(log)].args = <<Str("FetchError")>>
  /\ pc = "exited" /\ exitCode = Num(1)
  /\ Len(requests) = 1

(***************************************************************************)
(* C3: in a returned configuration runLighthouse is truthy exactly when    *)
(* --pr is false, or TRAVIS_EVENT_TYPE is 'pull_request', or               *)
(* CIRCLE_PULL_REQUEST is set.  As stated (set, with any value) it fails;  *)
(* as amended (set to a non-empty value) it holds.                         *)
(***************************************************************************)
PrFlagFalse == args.pr = Str("false")
TravisPullRequest == env.TRAVIS_EVENT_TYPE = Str("pull_request")
C3_Original ==
  Resolved =>
    (ShouldRun <=> (PrFlagFalse \/ TravisPullRequest \/ env.CIRCLE_PULL_REQUEST # Undef))
C3_ShouldRunExactly ==
  Resolved =>
    /\ ShouldRun <=> \/ PrFlagFalse
                     \/ TravisPullRequest
                     \/ env.CIRCLE_PULL_REQUEST \notin {Undef, Str("")}
    /\ PrFlagFalse => Prop(config, "runLighthouse") = Bool(TRUE)
C3_Witness ==
  /\ Resolved
  /\ ~PrFlagFalse /\ ~TravisPullRequest
  /\ env.CIRCLE_PULL_REQUEST = Str("")
  /\ ~ShouldRun

(***************************************************************************)
(* C4: without a positional URL, whatever the other flags and the          *)
(* environment are, resolution ends in the usage error: usage printed,     *)
(* exit code 1, no configuration, no network call.                         *)
(***************************************************************************)
C4_NoUrlIsUsageError == args.url = Undef => NoConfigEver
C4_Witness ==
  /\ args.url = Undef /\ ~args.help
  /\ args.noComment /\ args.runner = Str("wpt") /\ args.score = Str("2")
  /\ UsageError
  /\ Logged("Please provide a url to test.")

(***************************************************************************)
(* C5: every returned configuration has addComment true or a minPassScore  *)
(* that is a non-zero number (not NaN); --no-comment with --score absent,  *)
(* zero or unparseable never yields a configuration and ends in the usage  *)
(* error.                                                                  *)
(***************************************************************************)
C5_CommentOrScore ==
  /\ Resolved =>
       \/ Prop(config, "addComment") = Bool(TRUE)
       \/ /\ Prop(config, "minPassScore").t = "number"
          /\ Prop(config, "minPassScore").n # 0
  /\ args.noComment /\ args.score \in {Undef, Str("0"), Str("abc")} => NoConfigEver
C5_Witness ==
  /\ args.noComment /\ args.score = Str("0")
  /\ ~args.help /\ args.url = Str("https://example.com")
  /\ UsageError
  /\ Logged("Please provide a --score when using --no-comment.")

(***************************************************************************)
(* C6: a --runner flag with any value other than 'chrome' and 'wpt' ends   *)
(* resolution in the usage error without a network call, so that every     *)
(* configuration that reaches run has runner 'chrome' or 'wpt'.            *)
(***************************************************************************)
C6_UnknownRunnerRejected ==
  /\ args.runner \notin {Undef, Str("chrome"), Str("wpt")} => NoConfigEver
  /\ requests # <<>> => IsChrome \/ IsWpt

(***************************************************************************)
(* C7: a transport failure, a body that is not JSON and a JSON body        *)
(* lacking the field of the runner's path (score for chrome,               *)
(* data.target_url for wpt) all end in the failure being logged and exit   *)
(* code 1; exit code 0 occurs only for a successful or a skipped run.      *)
(***************************************************************************)
C7_FailureExitsOne ==
  pc = "exited" =>
    /\ exitCode = Num(0) => \/ Resolved /\ ~ShouldRun /\ requests = <<>>
                            \/ Len(requests) = 1 /\ resp # Undef /\ GoodResponse
    /\ Len(requests) = 1 /\ ~(resp # Undef /\ GoodResponse) =>
         exitCode = Num(1) /\ Logged("Lighthouse CI failed")

(***************************************************************************)
(* C8: on a response carrying the field of the runner's path, run logs     *)
(* exactly that field (data.target_url for wpt, score for chrome) and the  *)
(* process ends with exit code 0, whatever the score and minPassScore are. *)
(***************************************************************************)
C8_ReportsFieldExitsZero ==
  Len(requests) = 1 /\ resp # Undef /\ GoodResponse /\ pc \in {"idle", "exited"} =>
    /\ log[Len(log)] =
         IF IsWpt
         THEN Line("Started Lighthouse run on WebPageTest:", <<resp.f.data.f.target_url>>)
         ELSE Line("Lighthouse CI score:", <<resp.f.score>>)
    /\ ~Logged("Lighthouse CI failed")
    /\ pc = "exited" => exitCode = Num(0)
C8_Witness ==
  /\ pc = "exited" /\ exitCode = Num(0)
  /\ IsChrome
  /\ Prop(config, "minPassScore") = Num(2)
  /\ resp = Obj([score |-> Num(0)])
  /\ log[Len(log)] = Line("Lighthouse CI score:", <<Num(0)>>)

(***************************************************************************)
(* C9: every request is a POST with an X-API-KEY header; wpt posts the     *)
(* serialized configuration, without a format field, to                    *)
(* <CI_HOST>/run_on_wpt; chrome posts the serialized configuration plus    *)
(* format = "json" to <CI_HOST>/run_on_chrome; the other fields are those  *)
(* of the resolved configuration.                                          *)
(***************************************************************************)
Host ==
  IF env.CI_HOST \in {Undef, Str("")} THEN "https://lighthouse-ci.appspot.com" ELSE env.CI_HOST.s
C9_WireContract ==
  \A i \in 1..Len(requests) :
    LET req == requests[i]
        ser == JSONstringify(config)
    IN /\ req.method = "POST"
       /\ "X-API-KEY" \in DOMAIN req.headers
       /\ IsWpt \/ IsChrome
       /\ IsWpt =>
            /\ req.endpoint = Host \o "/run_on_wpt"
            /\ req.body = ser
            /\ "format" \notin DOMAIN req.body.f
       /\ IsChrome =>
            /\ req.endpoint = Host \o "/run_on_chrome"
            /\ req.body.f.format = Str("json")
            /\ DOMAIN req.body.f = DOMAIN ser.f \cup {"format"}
            /\ \A k \in DOMAIN ser.f : req.body.f[k] = ser.f[k]
       /\ \A k \in {"testUrl", "runLighthouse", "addComment", "runner"} :
            req.body.f[k] = config.f[k]
C9_Witness ==
  /\ Len(requests) = 1
  /\ IsChrome
  /\ requests[1].endpoint = "http://localhost:8080/run_on_chrome"
  /\ requests[1].body.f.format = Str("json")
  /\ requests[1].body.f.minPassScore = Num(2)
  /\ requests[1].headers["X-API-KEY"] = Str("key1")

(***************************************************************************)
(* C10: in every returned configuration pr.number is an integer or null,   *)
(* and when no provider variable matches pr.number and pr.sha are null.    *)
(***************************************************************************)
C10_PrNumberIntegerOrNull ==
  Resolved =>
    /\ Prop(Prop(config, "pr"), "number").t \in {"number", "null"}
    /\ ~Truthy(env.TRAVIS) /\ ~Truthy(env.CIRCLECI) =>
         /\ Prop(Prop(config, "pr"), "number") = Null
         /\ Prop(Prop(config, "pr"), "sha") = Null

====
